---- MODULE Spec2Model ----
(***************************************************************************)
(* A model of R2rLoki, the flashcard store of r2r-loki: six LokiDB         *)
(* collections (deck, source, template, note, media, card), the bulk       *)
(* insert and import paths, the card transform pipeline, the query engine  *)
(* and the spaced-repetition scheduler.                                    *)
(*                                                                         *)
(* Conventions.                                                            *)
(*  - A JavaScript object is a function whose DOMAIN is the set of its     *)
(*    keys; a key whose value is undefined is left out of the DOMAIN.      *)
(*  - A text (card front/back, a template) is a sequence of string parts.  *)
(*    "@template\n" + T is <<TemplateMarker>> \o T, "@md5\n" + h is        *)
(*    <<Md5Marker, h>>; a rendered text is one string.                     *)
(*  - The collections are created without the clone option, so find and    *)
(*    findOne hand out the stored documents themselves: an assignment to   *)
(*    or a delete on a found document acts on the stored row.              *)
(*  - The $loki/meta bookkeeping keys of card documents are not modelled   *)
(*    (cards are addressed by _id); rows of the other collections carry    *)
(*    "$loki", their position in the collection (no row of them is ever    *)
(*    removed by the operations modelled here).                            *)
(***************************************************************************)
EXTENDS Integers, Sequences, FiniteSets, TLC

VARIABLES deck, source, template, note, media, card, now, uid, last

vars == <<deck, source, template, note, media, card, now, uid, last>>

store == <<deck, source, template, note, media, card>>

(***************************************************************************)
(* Bounds of the model.                                                    *)
(***************************************************************************)
MaxCards == 2
MaxSrsCards == 1
MaxNow == 2
MaxReviews == 3
MaxStartLevel == 5
MaxItems == 4

(***************************************************************************)
(* JavaScript objects.                                                     *)
(***************************************************************************)
Has(o, k) == k \in DOMAIN o

\* o[k] is a non-empty string
Str(o, k) == Has(o, k) /\ o[k] # ""

\* o[k] is a non-empty text or array
Txt(o, k) == Has(o, k) /\ o[k] # <<>>

Keep(o, K) == [k \in DOMAIN o \cap K |-> o[k]]

Without(o, K) == [k \in DOMAIN o \ K |-> o[k]]

\* Object.assign(a, b)
Assign(a, b) == [k \in DOMAIN a \cup DOMAIN b |-> IF k \in DOMAIN b THEN b[k] ELSE a[k]]

\* { k: v } when v is defined, {} otherwise
Prop(k, defined, v) == IF defined THEN [x \in {k} |-> v] ELSE <<>>

\* { k: o[j] }, nothing when o[j] is undefined
Copy(k, o, j) == IF Has(o, j) THEN [x \in {k} |-> o[j]] ELSE <<>>

RECURSIVE AssignAll(_)
AssignAll(os) == IF os = <<>> THEN <<>> ELSE Assign(Head(os), AssignAll(Tail(os)))

Range(s) == {s[i] : i \in DOMAIN s}

RECURSIVE SelectIdx(_, _, _)
\* the positions i of s, ascending, whose i is in I
SelectIdx(s, I, i) ==
  IF i > Len(s) THEN <<>>
  ELSE (IF i \in I THEN <<i>> ELSE <<>>) \o SelectIdx(s, I, i + 1)

Min(a, b) == IF a < b THEN a ELSE b

Max(a, b) == IF a > b THEN a ELSE b

(***************************************************************************)
(* Texts, hashes and the template renderer.                                *)
(***************************************************************************)
TemplateMarker == "@template\n"

Md5Marker == "@md5\n"

FrontSide == "{{FrontSide}}"

FieldNames == {"name", "extra"}

Placeholder(f) == "{{" \o f \o "}}"

\* SparkMD5.hash of a string: an injective image of it
MD5(s) == "md5:" \o s

\* SparkMD5.hash(stringify(x)) of a structured value: key order plays no part
MD5Of(x) == [md5 |-> x]

StartsWith(text, marker) == Len(text) > 0 /\ text[1] = marker

\* /@md5\n/.test(text)
TestMd5(text) == \E i \in DOMAIN text : text[i] = Md5Marker

RECURSIVE Concat(_)
Concat(parts) == IF parts = <<>> THEN "" ELSE Head(parts) \o Concat(Tail(parts))

\* ankiMustache(template, data, front): data maps field names to values
ankiMustache(t, d, front) ==
  Concat([i \in DOMAIN t |->
            IF t[i] = FrontSide THEN front
            ELSE IF \E f \in FieldNames : t[i] = Placeholder(f)
                 THEN LET f == CHOOSE g \in FieldNames : t[i] = Placeholder(g)
                      IN IF f \in DOMAIN d THEN d[f] ELSE ""
                 ELSE t[i]])

\* fromSortedData: [{key, value}] to {order, data}; positions count from 1
fromSortedData(sd) ==
  [data  |-> [k \in {sd[i].key : i \in DOMAIN sd} |->
                sd[CHOOSE i \in DOMAIN sd :
                     sd[i].key = k /\ \A j \in DOMAIN sd : sd[j].key = k => j <= i].value],
   order |-> [k \in {sd[i].key : i \in DOMAIN sd} |->
                CHOOSE i \in DOMAIN sd :
                  sd[i].key = k /\ \A j \in DOMAIN sd : sd[j].key = k => j <= i]]

RECURSIVE SortKeys(_, _)
SortKeys(order, K) ==
  IF K = {} THEN <<>>
  ELSE LET k == CHOOSE x \in K : \A y \in K : order[x] <= order[y]
       IN <<k>> \o SortKeys(order, K \ {k})

\* toSortedData: {order, data} to [{key, value}] by ascending position
toSortedData(n) ==
  LET ks == SortKeys(n.order, DOMAIN n.order)
  IN [i \in DOMAIN ks |->
        Assign([key |-> ks[i]], Copy("value", n.data, ks[i]))]

\* the field map an array of {key, value} stands for
DataOf(sd) == fromSortedData(sd).data

(***************************************************************************)
(* quiz: the interval table and the two review delays.                     *)
(***************************************************************************)
srsMap == <<2, 4, 8, 16>>

RepeatInterval == 1

\* the table holds no interval beyond its end (the clamps keep the level inside)
getNextReview(srsLevel, t) ==
  IF srsLevel + 1 \in DOMAIN srsMap THEN t + srsMap[srsLevel + 1] ELSE t

repeatReview(t) == t + RepeatInterval

(***************************************************************************)
(* The collection store: insertOne with its unique index, and the hooks.   *)
(***************************************************************************)
Loki(n) == [x \in {"$loki"} |-> n]

\* the unique index on field f refuses row (rows without f are not indexed)
DuplicateKey(coll, f, row) ==
  Has(row, f) /\ \E i \in DOMAIN coll : Has(coll[i], f) /\ coll[i][f] = row[f]

\* the collection after a successful insertOne(row)
Inserted(coll, row) == Append(coll, Assign(row, Loki(Len(coll) + 1)))

\* findOne by example: the first row equal to q on every key of Q
Matches(r, q, Q) ==
  \A k \in Q : (Has(q, k) /\ Has(r, k) /\ r[k] = q[k]) \/ (~Has(q, k) /\ ~Has(r, k))

FindOne(coll, q, Q) ==
  IF \E i \in DOMAIN coll : Matches(coll[i], q, Q)
  THEN CHOOSE i \in DOMAIN coll :
         Matches(coll[i], q, Q) /\ \A j \in DOMAIN coll : Matches(coll[j], q, Q) => i <= j
  ELSE 0

\* the row with the given $loki, 0 when there is none (also for an undefined id)
ById(coll, id) == IF id \in DOMAIN coll THEN id ELSE 0

TemplateContent == {"front", "back", "css", "js"}

getTemplateId(t) == MD5Of(Keep(t, TemplateContent))

getNoteId(data) == MD5Of(data)

\* template.insertOne(t) with its pre-insert hook; Q is the set of keys t was
\* built with. Gives the collection and the $loki of the new row (0: refused).
InsertTemplate(coll, t, Q) ==
  LET hashed == \E k \in TemplateContent : Txt(t, k)
      i0 == IF hashed THEN FindOne(coll, t, Q) ELSE 0
      \* with a matching row t0 the hook's t is rebound to t0: t0 gets the key
      coll0 == IF i0 # 0
               THEN [coll EXCEPT ![i0] = Assign(@, [key |-> getTemplateId(@)])]
               ELSE coll
      row == IF hashed /\ i0 = 0 THEN Assign(t, [key |-> getTemplateId(t)]) ELSE t
  IN IF DuplicateKey(coll0, "key", row)
     THEN [coll |-> coll0, id |-> 0]
     ELSE [coll |-> Inserted(coll0, row), id |-> Len(coll0) + 1]

\* x.insertOne(row) under the unique field f, the DuplicateKey error swallowed
TryInsert(coll, f, row) ==
  IF DuplicateKey(coll, f, row)
  THEN [coll |-> coll, id |-> 0]
  ELSE [coll |-> Inserted(coll, row), id |-> Len(coll) + 1]

\* getOrCreateDeck(name)
getOrCreateDeck(coll, name) ==
  IF DuplicateKey(coll, "name", [name |-> name])
  THEN [coll |-> coll, id |-> FindOne(coll, [name |-> name], {"name"})]
  ELSE [coll |-> Inserted(coll, [name |-> name]), id |-> Len(coll) + 1]

\* position of the card with the given _id, 0 when there is none
CardIdx(cards, id) ==
  IF \E i \in DOMAIN cards : cards[i]._id = id
  THEN CHOOSE i \in DOMAIN cards : cards[i]._id = id
  ELSE 0

CardIds == {card[i]._id : i \in DOMAIN card}

(***************************************************************************)
(* The card transform pipeline.                                            *)
(***************************************************************************)
\* the literal texts of the model longer than the marker, and what is left of
\* them after the marker's length
Suffix10 == [s \in {"Hello World!"} |-> "d!"]

\* text.substr("@template\n".length)
substrMarker(text) ==
  IF text = <<>> THEN <<>>
  ELSE IF text[1] = TemplateMarker THEN Tail(text)
  ELSE IF text[1] = Md5Marker THEN <<"tail27:" \o text[2]>>
  ELSE IF Concat(text) \in DOMAIN Suffix10 THEN <<Suffix10[Concat(text)]>>
  ELSE <<>>

\* getFront(cardId); its getData call is not awaited, so no field is readable
getFront(cardId) ==
  LET i == CardIdx(card, cardId)
  IN IF i = 0 THEN ""
     ELSE LET c == card[i]
              t == IF Has(c, "templateId") THEN ById(template, c.templateId) ELSE 0
          IN IF Has(c, "front") /\ StartsWith(c.front, Md5Marker) /\ t # 0
             THEN ankiMustache(IF Has(template[t], "front") THEN template[t].front ELSE <<>>,
                               <<>>, "")
             ELSE IF Has(c, "front") THEN Concat(c.front) ELSE ""

\* transformCreateOrUpdate works on u and its two locals: a is [u, data, front]
\* (data <<>>: null or without fields). cardId 0 is null (a create). The
\* created/modified stamp:
stamp(cardId, u, timestamp) ==
  [u |-> Assign(u, IF cardId = 0 THEN [created |-> timestamp] ELSE [modified |-> timestamp]),
   data |-> <<>>, front |-> "", hasData |-> FALSE]

\* front begins with the template-request marker: data is the payload's on a
\* create (on an update the promise of getData, no field of which is
\* readable), u.tFront the rest of front
frontRequest(cardId, a) ==
  IF Txt(a.u, "front") /\ StartsWith(a.u.front, TemplateMarker)
  THEN [a EXCEPT !.data = IF cardId = 0 /\ Has(a.u, "data") THEN DataOf(a.u.data) ELSE <<>>,
                 !.hasData = TRUE,
                 !.u = Assign(a.u, [tFront |-> Tail(a.u.front)])]
  ELSE a

\* u.tFront is rendered and front becomes the hash marker
frontDerive(a) ==
  IF Txt(a.u, "tFront")
  THEN LET front == ankiMustache(a.u.tFront, a.data, "")
       IN [a EXCEPT !.front = front, !.u = Assign(a.u, [front |-> <<Md5Marker, MD5(front)>>])]
  ELSE a

\* back begins with the template-request marker: u.tBack is cut out of
\* u.front, and on an update the front is fetched when none was rendered
backRequest(cardId, a) ==
  IF Txt(a.u, "back") /\ StartsWith(a.u.back, TemplateMarker)
  THEN [a EXCEPT !.data = IF ~a.hasData /\ cardId = 0 /\ Has(a.u, "data")
                          THEN DataOf(a.u.data) ELSE a.data,
                 !.u = Assign(a.u, [tBack |-> substrMarker(IF Has(a.u, "front")
                                                           THEN a.u.front ELSE <<>>)]),
                 !.front = IF a.front = "" /\ cardId # 0 THEN getFront(cardId) ELSE a.front]
  ELSE a

\* u.tBack is rendered and back becomes the hash marker
backDerive(a) ==
  IF Txt(a.u, "tBack")
  THEN Assign(a.u, [back |-> <<Md5Marker, MD5(ankiMustache(a.u.tBack, a.data, a.front))>>])
  ELSE a.u

transformCreateOrUpdate(cardId, u, timestamp) ==
  backDerive(backRequest(cardId, frontDerive(frontRequest(cardId, stamp(cardId, u, timestamp)))))

(***************************************************************************)
(* insertMany.                                                             *)
(***************************************************************************)
\* entries.filter(has k).distinctBy(k): the first entry of every value of k
DistinctBy(es, k) ==
  LET I == {i \in DOMAIN es : Str(es[i], k) /\ \A j \in 1..(i - 1) : Str(es[j], k) => es[j][k] # es[i][k]}
      idx == SelectIdx(es, I, 1)
  IN [n \in DOMAIN idx |-> es[idx[n]]]

\* a map with m[k] = id added when the insert gave a row (id # 0)
Put(m, k, id) == IF id = 0 THEN m ELSE [x \in DOMAIN m \cup {k} |-> IF x = k THEN id ELSE m[x]]

\* one step of the source loop: acc is the collection and sIdMap
SourceStep(acc, e) ==
  LET r == TryInsert(acc.coll, "h",
                     AssignAll(<<Copy("name", e, "source"),
                                 [created |-> IF Has(e, "sCreated") THEN e.sCreated ELSE now],
                                 [h |-> e.sH]>>))
  IN [coll |-> r.coll, map |-> Put(acc.map, e.sH, r.id)]

\* the source loop over the entries that name a source
RECURSIVE SourceLoop(_, _)
SourceLoop(acc, es) ==
  IF es = <<>> THEN acc ELSE SourceLoop(SourceStep(acc, Head(es)), Tail(es))

\* sIdMap[e.sH]
SourceIdOf(sIdMap, e) ==
  Prop("sourceId", Has(e, "sH") /\ e.sH \in DOMAIN sIdMap,
       IF Has(e, "sH") /\ e.sH \in DOMAIN sIdMap THEN sIdMap[e.sH] ELSE 0)

TemplateKeys == {"name", "front", "back", "css", "js", "sourceId"}

\* one step of the template loop: acc is the collection, tIdMap and sIdMap
TemplateStep(acc, e) ==
  LET r == InsertTemplate(acc.coll,
                          AssignAll(<<[name |-> e.template], Copy("front", e, "tFront"),
                                      Copy("back", e, "tBack"), Copy("css", e, "css"),
                                      Copy("js", e, "js"), SourceIdOf(acc.sIdMap, e)>>),
                          TemplateKeys)
  IN [coll |-> r.coll, map |-> Put(acc.map, e.template, r.id), sIdMap |-> acc.sIdMap]

\* the template loop over the entries that name a template
RECURSIVE TemplateLoop(_, _)
TemplateLoop(acc, es) ==
  IF es = <<>> THEN acc ELSE TemplateLoop(TemplateStep(acc, Head(es)), Tail(es))

\* the note name `${e.sH}/${e.template}/${e.data[0].value}`
NoteName(e) ==
  <<IF Has(e, "sH") THEN e.sH ELSE "undefined",
    IF Has(e, "template") THEN e.template ELSE "undefined",
    IF Has(e.data[1], "value") THEN e.data[1].value ELSE "undefined">>

\* one step of the note loop; an empty data array makes the row's name throw
\* inside the try, and nothing is inserted
NoteStep(acc, e) ==
  IF ~Has(e, "data") THEN acc
  ELSE LET sd == fromSortedData(e.data)
           key == MD5Of(sd.data)
           r == IF e.data = <<>> THEN [coll |-> acc.coll, id |-> 0]
                ELSE TryInsert(acc.coll, "key",
                               AssignAll(<<[name |-> NoteName(e), key |-> key,
                                            data |-> sd.data, order |-> sd.order],
                                           SourceIdOf(acc.sIdMap, e)>>))
       IN [coll |-> r.coll, map |-> Put(acc.map, key, r.id), sIdMap |-> acc.sIdMap]

\* the note loop over the entries
RECURSIVE NoteLoop(_, _)
NoteLoop(acc, es) ==
  IF es = <<>> THEN acc ELSE NoteLoop(NoteStep(acc, Head(es)), Tail(es))

\* (e as any).key after the note loop
EntryKey(e) ==
  IF Has(e, "data") THEN [key |-> MD5Of(fromSortedData(e.data).data)] ELSE Keep(e, {"key"})

\* one step of the deck loop: acc is the collection and dMap
DeckStep(acc, e) ==
  LET r == getOrCreateDeck(acc.coll, e.deck)
  IN [coll |-> r.coll, map |-> Put(acc.map, e.deck, r.id)]

\* the deck loop over the entries' decks
RECURSIVE DeckLoop(_, _)
DeckLoop(acc, es) ==
  IF es = <<>> THEN acc ELSE DeckLoop(DeckStep(acc, Head(es)), Tail(es))

\* dMap as card.insert reads it. The deck loop is started but not awaited:
\* every callback stops at its await of getOrCreateDeck (whose insert has
\* been done), and its assignment to dMap runs only after insertMany's
\* synchronous rest, card.insert included.
dMapAtInsert(dMap) == <<>>

\* the card row of one entry
CardOf(e, id, dMap, nIdMap, tIdMap) ==
  LET k == EntryKey(e)
  IN AssignAll(<<[_id |-> id],
                 Keep(e, {"front", "back", "mnemonic", "srsLevel", "nextReview", "tag"}),
                 Prop("deckId", e.deck \in DOMAIN dMap,
                      IF e.deck \in DOMAIN dMap THEN dMap[e.deck] ELSE 0),
                 Prop("noteId", Has(k, "key") /\ k.key \in DOMAIN nIdMap,
                      IF Has(k, "key") /\ k.key \in DOMAIN nIdMap THEN nIdMap[k.key] ELSE 0),
                 Prop("templateId", Str(e, "template") /\ e.template \in DOMAIN tIdMap,
                      IF Str(e, "template") /\ e.template \in DOMAIN tIdMap
                      THEN tIdMap[e.template] ELSE 0),
                 [created |-> now]>>)

\* insertMany(entries): the collections it leaves and the ids it returns
insertMany(st, entries) ==
  LET es == [i \in DOMAIN entries |-> transformCreateOrUpdate(0, entries[i], now)]
      s == SourceLoop([coll |-> st.source, map |-> <<>>], DistinctBy(es, "sH"))
      t == TemplateLoop([coll |-> st.template, map |-> <<>>, sIdMap |-> s.map],
                 DistinctBy(es, "template"))
      n == NoteLoop([coll |-> st.note, map |-> <<>>, sIdMap |-> s.map], es)
      d == DeckLoop([coll |-> st.deck, map |-> <<>>], DistinctBy(es, "deck"))
      cIds == [i \in DOMAIN es |-> st.uid + i]
  IN [deck |-> d.coll, source |-> s.coll, template |-> t.coll, note |-> n.coll,
      card |-> st.card \o [i \in DOMAIN es |->
                             CardOf(es[i], cIds[i], dMapAtInsert(d.map), n.map, t.map)],
      uid |-> st.uid + Len(es), ids |-> cIds, entries |-> es]

Store == [deck |-> deck, source |-> source, template |-> template, note |-> note,
          media |-> media, card |-> card, uid |-> uid]

InsertMany(entries) ==
  /\ Len(card) + Len(entries) <= MaxCards
  /\ LET r == insertMany(Store, entries)
     IN /\ deck' = r.deck
        /\ source' = r.source
        /\ template' = r.template
        /\ note' = r.note
        /\ card' = r.card
        /\ uid' = r.uid
        /\ last' = [op |-> "insertMany", entries |-> entries, ids |-> r.ids, pre |-> Store]
  /\ UNCHANGED <<media, now>>

(***************************************************************************)
(* Media, and the two imports.                                             *)
(***************************************************************************)
\* createMedia(m): the collection it leaves and the hash it returns ("" when
\* the insert was refused)
createMedia(coll, m) ==
  LET r == TryInsert(coll, "h", Assign(m, [h |-> MD5(m.data)]))
  IN [coll |-> r.coll, h |-> IF r.id = 0 THEN "" ELSE MD5(m.data)]

CreateMedia(m) ==
  /\ media' = createMedia(media, m).coll
  /\ last' = [op |-> "createMedia", m |-> m, h |-> createMedia(media, m).h, pre |-> Store]
  /\ UNCHANGED <<deck, source, template, note, card, now, uid>>

\* an import that goes on although its source is stored already
importSource_NoAbort(coll, name, h) ==
  [coll |-> Inserted(coll, [name |-> name, h |-> h, created |-> now]),
   id |-> Len(coll) + 1]

\* the source row of an import: id 0 when a source of that hash is stored
importSource(coll, name, h) ==
  TryInsert(coll, "h", [name |-> name, h |-> h, created |-> now])

\* the media rows of an import, each under the new sourceId
RECURSIVE MediaLoop(_, _, _)
MediaLoop(coll, ms, sourceId) ==
  IF ms = <<>> THEN coll
  ELSE MediaLoop(TryInsert(coll, "h", Assign(Head(ms), [sourceId |-> sourceId])).coll,
                 Tail(ms), sourceId)

\* fromAnki, one card: the deck by name
ankiDeck(acc, el) ==
  IF el.deck \in DOMAIN acc.dIdMap THEN acc
  ELSE [acc EXCEPT !.deck = getOrCreateDeck(acc.deck, el.deck).coll,
                   !.dIdMap = Put(acc.dIdMap, el.deck, getOrCreateDeck(acc.deck, el.deck).id)]

AnkiTemplateKeys == {"name", "sourceId", "front", "back", "css"}

\* the template row of an external card
ankiT(acc, el) ==
  [name |-> acc.h \o "/" \o el.model \o "/" \o el.template, sourceId |-> acc.sourceId,
   front |-> el.qfmt, back |-> el.afmt, css |-> el.css]

\* fromAnki, one card: the template, inserted once for every content
ankiTemplate(acc, el) ==
  IF getTemplateId(ankiT(acc, el)) \in DOMAIN acc.tIdMap THEN acc
  ELSE [acc EXCEPT !.template = InsertTemplate(acc.template, ankiT(acc, el), AnkiTemplateKeys).coll,
                   !.tIdMap = Put(acc.tIdMap, getTemplateId(ankiT(acc, el)),
                                  InsertTemplate(acc.template, ankiT(acc, el), AnkiTemplateKeys).id)]

\* the field map of an external card
ankiData(el) == [k \in Range(el.flds) |-> el.vals[CHOOSE i \in DOMAIN el.flds : el.flds[i] = k]]

\* an import that records no field position
ankiOrder_None(el) == <<>>

\* its field positions, counted from 0
ankiOrder(el) == [k \in Range(el.flds) |-> (CHOOSE i \in DOMAIN el.flds : el.flds[i] = k) - 1]

\* the note row of an external card
ankiN(acc, el) ==
  [key |-> getNoteId(ankiData(el)), name |-> <<acc.h, el.model, el.template, el.vals[1]>>,
   data |-> ankiData(el), order |-> ankiOrder(el)]

\* fromAnki, one card: the note, inserted once for every content
ankiNote(acc, el) ==
  IF getNoteId(ankiData(el)) \in DOMAIN acc.nIdMap THEN acc
  ELSE [acc EXCEPT !.note = TryInsert(acc.note, "key", ankiN(acc, el)).coll,
                   !.nIdMap = Put(acc.nIdMap, getNoteId(ankiData(el)),
                                  TryInsert(acc.note, "key", ankiN(acc, el)).id)]

\* fromAnki, one card: the card row, its two sides rendered and hashed
ankiCard(acc, el) ==
  [acc EXCEPT
     !.uid = @ + 1,
     !.card = Append(@, AssignAll(<<
        [_id |-> acc.uid + 1],
        Copy("deckId", acc.dIdMap, el.deck),
        Copy("templateId", acc.tIdMap, getTemplateId(ankiT(acc, el))),
        Copy("noteId", acc.nIdMap, getNoteId(ankiData(el))),
        [front |-> <<Md5Marker, MD5(ankiMustache(el.qfmt, ankiData(el), ""))>>,
         back |-> <<Md5Marker, MD5(ankiMustache(el.afmt, ankiData(el),
                                                ankiMustache(el.qfmt, ankiData(el), "")))>>,
         created |-> now,
         tag |-> SelectSeq(el.tags, LAMBDA t : t # "")]>>))]

\* fromAnki, the loop over the package's cards
RECURSIVE AnkiCardLoop(_, _)
AnkiCardLoop(acc, els) ==
  IF els = <<>> THEN acc
  ELSE AnkiCardLoop(ankiCard(ankiNote(ankiTemplate(ankiDeck(acc, Head(els)), Head(els)),
                                      Head(els)), Head(els)),
                    Tail(els))

\* fromAnki(anki): the store it leaves
fromAnki(st, anki) ==
  LET s == importSource(st.source, anki.name, anki.h)
  IN IF s.id = 0 THEN st
     ELSE LET r == AnkiCardLoop([deck |-> st.deck, template |-> st.template, note |-> st.note,
                                 card |-> st.card, uid |-> st.uid, dIdMap |-> <<>>,
                                 tIdMap |-> <<>>, nIdMap |-> <<>>, h |-> anki.h,
                                 sourceId |-> s.id],
                                anki.cards)
          IN [deck |-> r.deck, source |-> s.coll, template |-> r.template, note |-> r.note,
              media |-> MediaLoop(st.media, anki.media, s.id), card |-> r.card, uid |-> r.uid]

\* fromR2r(r2r): the store it leaves
fromR2r(st, r2r) ==
  LET s == importSource(st.source, r2r.name, r2r.h)
  IN IF s.id = 0 THEN st
     ELSE LET r == insertMany([st EXCEPT !.source = s.coll], r2r.entries)
          IN [deck |-> r.deck, source |-> r.source, template |-> r.template, note |-> r.note,
              media |-> MediaLoop(st.media, r2r.media, s.id), card |-> r.card, uid |-> r.uid]

\* the collections become those of st
Becomes(st) ==
  /\ deck' = st.deck
  /\ source' = st.source
  /\ template' = st.template
  /\ note' = st.note
  /\ media' = st.media
  /\ card' = st.card
  /\ uid' = st.uid

FromAnki(anki) ==
  /\ Len(card) + Len(anki.cards) <= MaxCards
  /\ Becomes(fromAnki(Store, anki))
  /\ last' = [op |-> "fromAnki", h |-> anki.h, anki |-> anki, pre |-> Store]
  /\ UNCHANGED now

FromR2r(r2r) ==
  /\ Len(card) + Len(r2r.entries) <= MaxCards
  /\ Becomes(fromR2r(Store, r2r))
  /\ last' = [op |-> "fromR2r", h |-> r2r.h, r2r |-> r2r, pre |-> Store]
  /\ UNCHANGED now

(***************************************************************************)
(* The query engine: parseCond and render.                                 *)
(***************************************************************************)
\* what options.fields "*" stands for
AllFields ==
  {"data", "source", "deck", "front", "js", "mnemonic", "modified", "nextReview", "sCreated",
   "sH", "srsLevel", "stat", "tBack", "tFront", "tag", "template", "back", "created", "css",
   "_id"}

\* options.fields as a set of names ({"*"} is the string "*")
FieldsOf(options) ==
  IF ~Has(options, "fields") THEN {}
  ELSE IF options.fields = {"*"} THEN AllFields ELSE options.fields

\* a query engine that goes on without options.fields
noFields_Ignored(options) == FALSE

\* !options.fields
noFields(options) == ~Has(options, "fields")

\* one row of a left eqJoin on l[leftKey] = r.$loki: {...l, k: r[names[k]]} for
\* the keys k of names, r being {} when no row matches
eqJoinRow(l, coll, leftKey, names) ==
  LET i == IF Has(l, leftKey) THEN ById(coll, l[leftKey]) ELSE 0
      picked == {k \in DOMAIN names : i # 0 /\ Has(coll[i], names[k])}
  IN Assign(Without(l, DOMAIN names), [k \in picked |-> coll[i][names[k]]])

eqJoin(rows, wanted, coll, leftKey, names) ==
  IF wanted THEN [i \in DOMAIN rows |-> eqJoinRow(rows[i], coll, leftKey, names)] ELSE rows

NoteJoin(F) == F \cap {"data", "key"} # {}

\* a query engine that joins the decks whatever is needed
DeckJoin_Always(F) == TRUE

DeckJoin(F) == "deck" \in F

SourceJoin(F) == F \cap {"sCreated", "sH", "source"} # {}

TemplateJoin(F) == F \cap {"tFront", "tBack", "template", "model", "css", "js"} # {}

\* some join replaces the stored documents by new rows
AnyJoin(F) == NoteJoin(F) \/ DeckJoin(F) \/ SourceJoin(F) \/ TemplateJoin(F)

\* the collections the query is joined with
joinsOf(F) ==
  (IF NoteJoin(F) THEN {"note"} ELSE {}) \cup (IF DeckJoin(F) THEN {"deck"} ELSE {})
    \cup (IF SourceJoin(F) THEN {"source"} ELSE {})
    \cup (IF TemplateJoin(F) THEN {"template"} ELSE {})

\* query.data() after the joins the wanted fields ask for
joined(st, F) ==
  eqJoin(eqJoin(eqJoin(eqJoin(st.card,
                              NoteJoin(F), st.note, "noteId",
                              [data |-> "data", order |-> "order"]),
                       DeckJoin(F), st.deck, "deckId", [deck |-> "name"]),
                SourceJoin(F), st.source, "sourceId",
                [sCreated |-> "created", source |-> "name"]),
         TemplateJoin(F), st.template, "templateId",
         [tFront |-> "front", tBack |-> "back", css |-> "css", js |-> "js"])

\* A query q is the sequence of its terms: "_id=n", "deck=name", "is:distinct",
\* "is:duplicate" (the empty sequence is the query "").
IdTerm(n) == "_id=" \o ToString(n)

DeckNames == {"d1", "d2", "d3"}

DeckTerm(name) == "deck=" \o name

\* fullCond.fields: the fields the condition of q refers to
condFields(q) ==
  (IF \E n \in 1..MaxCards : IdTerm(n) \in Range(q) THEN {"_id"} ELSE {})
    \cup (IF \E d \in DeckNames : DeckTerm(d) \in Range(q) THEN {"deck"} ELSE {})

\* allFields: the wanted fields, those of the condition, and key for the two
\* grouping filters
neededFields(q, options) ==
  FieldsOf(options) \cup condFields(q)
    \cup (IF "is:distinct" \in Range(q) \/ "is:duplicate" \in Range(q) THEN {"key"} ELSE {})

\* the condition of q on a row
satisfies(c, q) ==
  /\ \A n \in 1..MaxCards : IdTerm(n) \in Range(q) => (Has(c, "_id") /\ c._id = n)
  /\ \A d \in DeckNames : DeckTerm(d) \in Range(q) => (Has(c, "deck") /\ c.deck = d)

\* the rows at the given positions
At(rows, hits) == [n \in DOMAIN hits |-> rows[hits[n]]]

\* the members of seq at the positions in I, in order
Pick(seq, I) == At(seq, SelectIdx(seq, I, 1))

\* the filter is:distinct on items: the first item of every key, and every
\* item without key (each under a fresh uuid); keys are hashes and uuids, none
\* of them integer-like, so Object.values gives them in insertion order
isDistinct(items) ==
  Pick(items, {n \in DOMAIN items :
                 Has(items[n], "key") =>
                   \A m \in 1..(n - 1) : Has(items[m], "key") => items[m].key # items[n].key})

\* String(it.front), the property name is:duplicate groups under
FrontKey(c) == IF Has(c, "front") THEN Concat(c.front) ELSE "undefined"

\* the integer-like property names among the texts of the model, and their
\* values: Object.values lists such properties first, in ascending order
ArrayIndex == ("1" :> 1) @@ ("2" :> 2)

\* where the group first seen at position n stands in Object.values(col)
valuesRank(items, n) ==
  IF FrontKey(items[n]) \in DOMAIN ArrayIndex THEN ArrayIndex[FrontKey(items[n])]
  ELSE Len(items) + 2 + n

\* the positions N in ascending order: the order in which the groups were made
insertionOrder(items, N) == SelectIdx(items, N, 1)

RECURSIVE valuesOrder(_, _)
\* the positions N (one per group) in the order of Object.values(col)
valuesOrder(items, N) ==
  IF N = {} THEN <<>>
  ELSE LET n == CHOOSE x \in N : \A y \in N : valuesRank(items, x) <= valuesRank(items, y)
       IN <<n>> \o valuesOrder(items, N \ {n})

\* col[k]: the items of the same front as items[n], in order
groupOf(items, n) ==
  Pick(items, {m \in DOMAIN items : FrontKey(items[m]) = FrontKey(items[n])})

RECURSIVE flattenGroups(_, _)
\* .filter((a) => a.length > 1).reduce((a, b) => [...a, ...b], [])
flattenGroups(items, firsts) ==
  IF firsts = <<>> THEN <<>>
  ELSE (IF Len(groupOf(items, Head(firsts))) > 1 THEN groupOf(items, Head(firsts)) ELSE <<>>)
         \o flattenGroups(items, Tail(firsts))

\* the filter is:duplicate on items
isDuplicate(items) ==
  flattenGroups(items,
                valuesOrder(items, {n \in DOMAIN items :
                                      \A m \in 1..(n - 1) :
                                        FrontKey(items[m]) # FrontKey(items[n])}))

\* the virtual filters named in q, is:distinct before is:duplicate
virtual(items, q) ==
  IF "is:duplicate" \in Range(q)
  THEN isDuplicate(IF "is:distinct" \in Range(q) THEN isDistinct(items) ELSE items)
  ELSE IF "is:distinct" \in Range(q) THEN isDistinct(items) ELSE items

\* parser.filter(rows, q): the positions (in rows) of the rows it gives, in its
\* order: the condition first, then the virtual filters. Each row goes
\* through the filters under its position, a key no filter reads.
filtered(rows, q) ==
  LET kept == SelectSeq([n \in DOMAIN rows |-> Assign(rows[n], [pos |-> n])],
                        LAMBDA c : satisfies(c, q))
  IN [n \in DOMAIN virtual(kept, q) |-> virtual(kept, q)[n].pos]

\* a page that always starts at the first row
sliced_NoOffset(hits, options) ==
  SubSeq(hits, 1, IF Has(options, "limit") /\ options.limit # 0
                  THEN Min(options.limit, Len(hits)) ELSE Len(hits))

\* cards.slice(offset, offset + limit): the positions of the page
sliced(hits, options) ==
  LET offset == IF Has(options, "offset") THEN options.offset ELSE 0
      endPoint == IF Has(options, "limit") /\ options.limit # 0
                  THEN Min(offset + options.limit, Len(hits)) ELSE Len(hits)
  IN SubSeq(hits, offset + 1, endPoint)

\* toSortedData is asked for a row the note join gave no data
NoData(c, F) == "data" \in F /\ ~(Has(c, "data") /\ Has(c, "order"))

\* a map over the page that deletes no key
projected_KeepAll(c, options) == c

\* the map over the page: data as a sorted array, and only the wanted keys
projected(c, options) ==
  IF ~Has(options, "fields") THEN c
  ELSE Keep(IF "data" \in FieldsOf(options)
            THEN Assign(c, [data |-> IF NoData(c, FieldsOf(options)) THEN <<>>
                                     ELSE toSortedData(c)])
            ELSE c,
            FieldsOf(options))

\* parseCond(q, options): its result, and the cards as stored after it. Without
\* a join the rows of the page are the stored documents, and the keys the
\* caller did not ask for are deleted from them. toSortedData belongs to the
\* format library: on a row without note data it either throws (the call is
\* rejected) or gives an empty array (lenient).
parseCond(st, q, options, lenient) ==
  IF noFields(options)
  THEN [data |-> <<>>, count |-> 0, card |-> st.card, threw |-> FALSE, joins |-> {}]
  ELSE LET F == FieldsOf(options)
           allFields == neededFields(q, options)
           rows == joined(st, allFields)
           hits == filtered(rows, q)
           page == sliced(hits, options)
       IN IF ~lenient /\ \E n \in DOMAIN page : NoData(rows[page[n]], F)
          THEN [data |-> <<>>, count |-> 0, card |-> st.card, threw |-> TRUE,
                joins |-> joinsOf(allFields)]
          ELSE [data |-> [n \in DOMAIN page |-> projected(rows[page[n]], options)],
                count |-> Len(hits),
                card |-> IF AnyJoin(allFields) THEN st.card
                         ELSE [i \in DOMAIN st.card |->
                                 IF i \in Range(page) THEN projected(st.card[i], options)
                                 ELSE st.card[i]],
                threw |-> FALSE, joins |-> joinsOf(allFields)]

ParseCond(q, options, lenient) ==
  /\ card' = parseCond(Store, q, options, lenient).card
  /\ last' = [op |-> "parseCond", q |-> q, options |-> options,
              r |-> Without(parseCond(Store, q, options, lenient), {"card"}), pre |-> Store]
  /\ UNCHANGED <<deck, source, template, note, media, now, uid>>

RenderFields == {"front", "back", "mnemonic", "tFront", "tBack", "data", "css", "js"}

\* a side of c after render's re-derivation (a rendered side is a text of one part)
rendered(c, side, t, front) ==
  IF Has(c, side) /\ TestMd5(c[side])
  THEN Assign(c, [x \in {side} |->
                    <<ankiMustache(IF Has(c, t) THEN c[t] ELSE <<>>,
                                   IF Has(c, "data") THEN DataOf(c.data) ELSE <<>>, front)>>])
  ELSE c

\* the front render hands to the back template
frontText(c) == IF Has(c, "front") THEN Concat(c.front) ELSE ""

\* render(cardId): the card it returns; threw when the query was rejected or
\* found no card
render(st, cardId, lenient) ==
  LET r == parseCond(st, <<IdTerm(cardId)>>, [limit |-> 1, fields |-> RenderFields], lenient)
  IN IF r.threw \/ r.data = <<>> THEN [threw |-> TRUE]
     ELSE [threw |-> FALSE,
           c |-> rendered(rendered(r.data[1], "front", "tFront", ""), "back", "tBack",
                          frontText(rendered(r.data[1], "front", "tFront", "")))]

Render(cardId, lenient) ==
  /\ last' = [op |-> "render", id |-> cardId, r |-> render(Store, cardId, lenient), pre |-> Store]
  /\ UNCHANGED <<deck, source, template, note, media, card, now, uid>>

(***************************************************************************)
(* updateMany.                                                             *)
(***************************************************************************)
\* updateMany(ids, u) on the card collection. The found documents are the
\* stored ones: the first loop deletes from each every key that is not a key
\* of u (and not _id). transformCreateOrUpdate is called without await, so
\* Object.assign(c, <promise>) copies nothing of u into c; its synchronous
\* part has added "modified" (and the derived keys) to u by the time the next
\* card's keys are compared. No key of a card is deck, tFront, tBack, css, js
\* or data, so every key left goes through the default branch, and the final
\* findAndUpdate assigns each document its own values.
updateMany(cards, ids, u) ==
  LET hit == SelectIdx(cards, {i \in DOMAIN cards : cards[i]._id \in ids}, 1)
      first == IF hit = <<>> THEN 0 ELSE hit[1]
      uLater == IF first = 0 THEN u ELSE transformCreateOrUpdate(cards[first]._id, u, now)
  IN [i \in DOMAIN cards |->
        IF cards[i]._id \notin ids THEN cards[i]
        ELSE IF i = first THEN Keep(cards[i], DOMAIN u \cup {"_id"})
        ELSE Keep(cards[i], DOMAIN uLater \cup {"_id"})]

\* a call of updateMany(ids, u): only the card collection is written
UpdateMany(ids, u) ==
  /\ card' = updateMany(card, ids, u)
  /\ last' = [op |-> "updateMany", ids |-> ids, u |-> u, t |-> now, pre |-> Store]
  /\ UNCHANGED <<deck, source, template, note, media, now, uid>>

(***************************************************************************)
(* The scheduler.                                                          *)
(***************************************************************************)
\* card.srsLevel || 0
SrsLevelOf(c) == IF Has(c, "srsLevel") THEN c.srsLevel ELSE 0

\* card.stat.streak with its defaults
StreakOf(c) == IF Has(c, "stat") THEN c.stat.streak ELSE [right |-> 0, wrong |-> 0]

\* a scheduler that forgets the clamp at the table's end
clampSrsLevel_NoUpper(l) == IF l < 0 THEN 0 ELSE l

\* the two clamps on the new level
clampSrsLevel(l) ==
  LET hi == IF l >= Len(srsMap) THEN Len(srsMap) - 1 ELSE l
  IN IF hi < 0 THEN 0 ELSE hi

\* a scheduler that counts every answer as right
bumpStreak_AllRight(dSrsLevel, k) == [k EXCEPT !.right = @ + 1]

\* the streak after the answer
bumpStreak(dSrsLevel, k) ==
  IF dSrsLevel > 0 THEN [k EXCEPT !.right = @ + 1]
  ELSE IF dSrsLevel < 0 THEN [k EXCEPT !.wrong = @ + 1]
  ELSE k

\* a scheduler with the two delays exchanged
nextReviewOf_Swapped(dSrsLevel, srsLevel, t) ==
  IF dSrsLevel > 0 THEN repeatReview(t) ELSE getNextReview(srsLevel, t)

\* nextReview for the new level
nextReviewOf(dSrsLevel, srsLevel, t) ==
  IF dSrsLevel > 0 THEN getNextReview(srsLevel, t) ELSE repeatReview(t)

\* the three fields updateSrsLevel computes on the found card
srsUpdate(dSrsLevel, c, t) ==
  LET l == clampSrsLevel(SrsLevelOf(c) + dSrsLevel)
  IN [srsLevel |-> l,
      stat |-> [streak |-> bumpStreak(dSrsLevel, StreakOf(c))],
      nextReview |-> nextReviewOf(dSrsLevel, l, t)]

\* updateSrsLevel(dSrsLevel, cardId): the fields are assigned on the stored
\* card, then passed to updateMany
updateSrsLevel(dSrsLevel, cardId) ==
  LET i == CardIdx(card, cardId)
  IN /\ card' = IF i = 0 THEN card
                ELSE LET u == srsUpdate(dSrsLevel, card[i], now)
                     IN updateMany([card EXCEPT ![i] = Assign(@, u)], {cardId}, u)
     /\ last' = [op |-> IF dSrsLevel > 0 THEN "markRight" ELSE "markWrong",
                 id |-> cardId, t |-> now,
                 pre |-> IF i = 0 THEN <<>> ELSE <<card[i]>>]
     /\ UNCHANGED <<deck, source, template, note, media, now, uid>>

ReviewsOf(c) == StreakOf(c).right + StreakOf(c).wrong

Reviewable(cardId) ==
  LET i == CardIdx(card, cardId) IN IF i = 0 THEN TRUE ELSE ReviewsOf(card[i]) < MaxReviews

MarkRight(cardId) == Reviewable(cardId) /\ updateSrsLevel(1, cardId)

MarkWrong(cardId) == Reviewable(cardId) /\ updateSrsLevel(-1, cardId)

(***************************************************************************)
(* The clock, the initial state.                                           *)
(***************************************************************************)
Tick ==
  /\ now < MaxNow
  /\ now' = now + 1
  /\ UNCHANGED <<deck, source, template, note, media, card, uid, last>>

Init ==
  /\ deck = <<>>
  /\ source = <<>>
  /\ template = <<>>
  /\ note = <<>>
  /\ media = <<>>
  /\ card = <<>>
  /\ now = 0
  /\ uid = 0
  /\ last = [op |-> "build"]

(***************************************************************************)
(* The scheduler on cards of any starting level.                           *)
(***************************************************************************)
SrsEntries ==
  {[deck |-> "d1", front |-> <<"Q">>]}
    \cup {[deck |-> "d1", front |-> <<"Q">>, srsLevel |-> l] : l \in 0..MaxStartLevel}

NextSrs ==
  \/ \E e \in SrsEntries : Len(card) < MaxSrsCards /\ InsertMany(<<e>>)
  \/ \E id \in 1..MaxCards : MarkRight(id)
  \/ \E id \in 1..MaxCards : MarkWrong(id)
  \/ Tick

SpecSrs == Init /\ [][NextSrs]_vars

(***************************************************************************)
(* The store under bulk inserts, media, imports and queries.               *)
(***************************************************************************)
\* "Hello {{name}}" and the note data {name: "World"}
Hello == <<"Hello ", Placeholder("name")>>

World == <<[key |-> "name", value |-> "World"]>>

\* a template-requested front under the template name n
Templated(n) ==
  [deck |-> "d1", front |-> <<TemplateMarker>> \o Hello, template |-> n, data |-> World]

StoreEntries ==
  {Templated("T1"), Templated("T2"),
   [deck |-> "d2", front |-> <<TemplateMarker>> \o Hello, data |-> World],
   [deck |-> "d1", front |-> <<"Q">>, back |-> <<"A">>, sH |-> "s1", source |-> "src1",
    template |-> "T3", tBack |-> <<"A: ", Placeholder("name")>>]}

StoreBatches == {<<e>> : e \in StoreEntries} \cup {<<Templated("T1"), Templated("T2")>>}

Medias == {[name |-> "a.png", data |-> "img1"], [name |-> "b.png", data |-> "img1"]}

\* a card of an external package
AnkiCard ==
  [deck |-> "d1", model |-> "Basic", template |-> "Card 1", qfmt |-> Hello,
   afmt |-> <<FrontSide, "!">>, css |-> <<".card{}">>, flds |-> <<"name">>,
   vals |-> <<"World">>, tags |-> <<"t1", "">>]

\* two packages of different bytes with the same card
Ankis ==
  {[name |-> "a1.apkg", h |-> "a1", cards |-> <<AnkiCard>>,
    media |-> <<[h |-> MD5("img1"), name |-> "a.png", data |-> "img1"]>>],
   [name |-> "a2.apkg", h |-> "a2", cards |-> <<AnkiCard>>, media |-> <<>>]}

\* an instance file: its media and its cards as its own query engine gives them
R2rs ==
  {[name |-> "r1.r2r", h |-> "r1",
    media |-> <<[h |-> MD5("img2"), name |-> "c.png", data |-> "img2"]>>,
    entries |-> <<[deck |-> "d3", front |-> <<Md5Marker, MD5("Hello World")>>,
                   template |-> "T1", tFront |-> Hello, data |-> World]>>]}

NextStore ==
  \/ \E es \in StoreBatches : InsertMany(es)
  \/ \E m \in Medias : CreateMedia(m)
  \/ \E anki \in Ankis : FromAnki(anki)
  \/ \E r2r \in R2rs : FromR2r(r2r)

SpecStore == Init /\ [][NextStore]_vars

(***************************************************************************)
(* Queries and renders over a store filled by inserts and an import.       *)
(***************************************************************************)
QueryEntries ==
  {Templated("T1"),
   [deck |-> "d2", front |-> <<TemplateMarker>> \o Hello, data |-> World],
   [deck |-> "d1", front |-> <<"Q">>, back |-> <<"A">>]}

Queries == {<<>>} \cup {<<IdTerm(n)>> : n \in 1..MaxCards}

Options ==
  {<<>>, [limit |-> 1], [fields |-> {"_id", "deck"}], [fields |-> {"_id", "front"}],
   [fields |-> {"*"}]}

NextQuery ==
  \/ \E e \in QueryEntries : InsertMany(<<e>>)
  \/ \E anki \in Ankis : anki.h = "a1" /\ FromAnki(anki)
  \/ \E q \in Queries, options \in Options, lenient \in BOOLEAN : ParseCond(q, options, lenient)
  \/ \E id \in 1..MaxCards, lenient \in BOOLEAN : Render(id, lenient)

SpecQuery == Init /\ [][NextQuery]_vars

\* the last call was markRight/markWrong on a card that exists
Marked(op) == last.op = op /\ last.pre # <<>>

\* the card the last call was about, as stored now
Target == card[CardIdx(card, last.id)]

\* C1: every card that has been answered at least once (it carries stat) has
\* a stored srsLevel within 0 .. len(intervalTable)-1, whatever level it
\* started from.
C1_SrsLevelInRange ==
  \A i \in DOMAIN card :
    Has(card[i], "stat") =>
      Has(card[i], "srsLevel") /\ card[i].srsLevel \in 0..(Len(srsMap) - 1)

\* a card that started at or above the table's end was marked right and is
\* stored at the last level
C1_Witness ==
  /\ Marked("markRight")
  /\ SrsLevelOf(last.pre[1]) >= Len(srsMap)
  /\ Target.srsLevel = Len(srsMap) - 1

\* C2 as stated: markRight gives streak (r+1, w) and level min(L+1, len-1);
\* markWrong gives streak (r, w+1) and level max(L-1, 0).
C2_AsStated ==
  /\ Marked("markRight") =>
       /\ Target.stat.streak = [right |-> StreakOf(last.pre[1]).right + 1,
                                wrong |-> StreakOf(last.pre[1]).wrong]
       /\ Target.srsLevel = Min(SrsLevelOf(last.pre[1]) + 1, Len(srsMap) - 1)
  /\ Marked("markWrong") =>
       /\ Target.stat.streak = [right |-> StreakOf(last.pre[1]).right,
                                wrong |-> StreakOf(last.pre[1]).wrong + 1]
       /\ Target.srsLevel = Max(SrsLevelOf(last.pre[1]) - 1, 0)

\* C2 (amended): as stated, but markWrong leaves the level at
\* min(max(L-1, 0), len-1): the clamp at the table's end applies to a wrong
\* answer too.
C2_BothClamps ==
  /\ Marked("markRight") =>
       /\ Target.stat.streak = [right |-> StreakOf(last.pre[1]).right + 1,
                                wrong |-> StreakOf(last.pre[1]).wrong]
       /\ Target.srsLevel = Min(SrsLevelOf(last.pre[1]) + 1, Len(srsMap) - 1)
  /\ Marked("markWrong") =>
       /\ Target.stat.streak = [right |-> StreakOf(last.pre[1]).right,
                                wrong |-> StreakOf(last.pre[1]).wrong + 1]
       /\ Target.srsLevel = Min(Max(SrsLevelOf(last.pre[1]) - 1, 0), Len(srsMap) - 1)

\* a card more than one level beyond the table was marked wrong
C2_Witness ==
  /\ Marked("markWrong")
  /\ SrsLevelOf(last.pre[1]) > Len(srsMap)
  /\ Target.srsLevel = Len(srsMap) - 1

\* C3: the nextReview a call stores is the one computed from the card and the
\* time of the call, and from the same card at the same time the one markWrong
\* stores is never later than the one markRight stores.
C3_WrongNoLaterThanRight ==
  /\ \A i \in DOMAIN card :
       srsUpdate(-1, card[i], now).nextReview <= srsUpdate(1, card[i], now).nextReview
  /\ Marked("markWrong") =>
       /\ Target.nextReview = srsUpdate(-1, last.pre[1], last.t).nextReview
       /\ Target.nextReview <= srsUpdate(1, last.pre[1], last.t).nextReview
  /\ Marked("markRight") =>
       /\ Target.nextReview = srsUpdate(1, last.pre[1], last.t).nextReview
       /\ Target.nextReview >= srsUpdate(-1, last.pre[1], last.t).nextReview

\* a card at level 0 was marked wrong after the clock had moved
C3_Witness ==
  /\ Marked("markWrong")
  /\ last.t > 0
  /\ SrsLevelOf(last.pre[1]) = 0
  /\ Target.nextReview = last.t + RepeatInterval

(***************************************************************************)
(* Content addressing, imports and duplicates.                             *)
(***************************************************************************)
\* the call before this state
Called(op) == last.op = op

\* the last import found its source stored already
Reimport == (Called("fromAnki") \/ Called("fromR2r")) /\
            \E i \in DOMAIN last.pre.source : last.pre.source[i].h = last.h

\* C4 (as stated): after any sequence of insertMany, createMedia, fromAnki and
\* fromR2r calls no collection of Source, Template, Note, Media holds two rows
\* of the same content hash (so an insert of stored content adds no row), and
\* every content stored can be found by its key.
C4_OneRowPerContent ==
  /\ \A i, j \in DOMAIN source : source[i].h = source[j].h => i = j
  /\ \A i, j \in DOMAIN media : media[i].h = media[j].h => i = j
  /\ \A i, j \in DOMAIN note : getNoteId(note[i].data) = getNoteId(note[j].data) => i = j
  /\ \A i, j \in DOMAIN template :
       getTemplateId(template[i]) = getTemplateId(template[j]) => i = j
  /\ \A i \in DOMAIN template :
       \E j \in DOMAIN template :
         Has(template[j], "key") /\ template[j].key = getTemplateId(template[i])
  /\ \A i \in DOMAIN note : Has(note[i], "key") /\ note[i].key = getNoteId(note[i].data)

\* C5: an import whose source hash is stored already changes nothing: every
\* collection is as it was before the call, so all row counts are.
C5_ReimportAddsNothing == Reimport => Store = last.pre

\* a package with media and a card was imported again
C5_Witness ==
  /\ Called("fromAnki")
  /\ Reimport
  /\ \E i \in DOMAIN media : Has(media[i], "sourceId") /\ source[media[i].sourceId].h = last.h
  /\ Len(card) = Len(last.anki.cards)

\* c refers to the Deck row of the given name
DeckNamed(c, name) ==
  Has(c, "deckId") /\ c.deckId \in DOMAIN deck /\ deck[c.deckId].name = name

\* C6 (as stated): every card stored by insertMany or fromAnki has the deckId
\* of the Deck row named by its entry, and a query that asks for deck gives a
\* deck name in every row.
C6_DeckResolved ==
  /\ Called("insertMany") =>
       \A n \in DOMAIN last.ids :
         DeckNamed(card[CardIdx(card, last.ids[n])], last.entries[n].deck)
  /\ (Called("fromAnki") /\ ~Reimport) =>
       \A n \in DOMAIN last.anki.cards :
         DeckNamed(card[Len(last.pre.card) + n], last.anki.cards[n].deck)
  /\ (Called("parseCond") /\ "deck" \in FieldsOf(last.options) /\ ~last.r.threw) =>
       \A n \in DOMAIN last.r.data : Has(last.r.data[n], "deck")

\* c refers to the Note row of the given data
NoteLinked(c, data) ==
  Has(c, "noteId") /\ c.noteId \in DOMAIN note /\ note[c.noteId].key = getNoteId(data)

\* c refers to a Template row, which refers to the Source of hash h if one is given
TemplateLinked(c, e) ==
  /\ Has(c, "templateId") /\ c.templateId \in DOMAIN template
  /\ Has(e, "sH") =>
       /\ Has(template[c.templateId], "sourceId")
       /\ source[template[c.templateId].sourceId].h = e.sH

\* C7 (as stated): a card stored by insertMany or fromAnki refers to the Note
\* row of its data and to a Template row (and that to its Source), also when
\* that content was stored before the call.
C7_DuplicateResolved ==
  /\ Called("insertMany") =>
       \A n \in DOMAIN last.ids :
         /\ Has(last.entries[n], "data") =>
              NoteLinked(card[CardIdx(card, last.ids[n])], DataOf(last.entries[n].data))
         /\ Has(last.entries[n], "template") =>
              TemplateLinked(card[CardIdx(card, last.ids[n])], last.entries[n])
  /\ (Called("fromAnki") /\ ~Reimport) =>
       \A n \in DOMAIN last.anki.cards :
         /\ NoteLinked(card[Len(last.pre.card) + n], ankiData(last.anki.cards[n]))
         /\ TemplateLinked(card[Len(last.pre.card) + n], [sH |-> last.h])

(***************************************************************************)
(* Template-derived fronts, render and the query without fields.           *)
(***************************************************************************)
\* e asks for a front derived from a template, with note data
Requested(e) == Txt(e, "front") /\ StartsWith(e.front, TemplateMarker) /\ Has(e, "data")

\* the hash marker of the front e asks for
DerivedFront(e) == <<Md5Marker, MD5(ankiMustache(Tail(e.front), DataOf(e.data), ""))>>

\* C8 (as stated): a card inserted with front "@template\n" + T and data D is
\* stored with front "@md5\n" + hash(render(T, D)), and T is the front of the
\* Template row the card refers to.
C8_DerivedAndRecorded ==
  Called("insertMany") =>
    \A n \in DOMAIN last.ids :
      Requested(last.entries[n]) =>
        /\ card[CardIdx(card, last.ids[n])].front = DerivedFront(last.entries[n])
        /\ Has(card[CardIdx(card, last.ids[n])], "templateId")
        /\ card[CardIdx(card, last.ids[n])].templateId \in DOMAIN template
        /\ Has(template[card[CardIdx(card, last.ids[n])].templateId], "front")
        /\ template[card[CardIdx(card, last.ids[n])].templateId].front
             = Tail(last.entries[n].front)

\* a card as insertMany stored it (an import stores tag, no entry here has
\* one), with a derived front
DerivedCard(i) ==
  /\ i # 0
  /\ Has(card[i], "created") /\ ~Has(card[i], "tag")
  /\ Has(card[i], "front") /\ StartsWith(card[i].front, Md5Marker)

\* C9 (as stated): render of a card that insertMany stored with a derived
\* front returns a front whose hash is the one in the card's "@md5" marker
\* (the hash being injective, the front is render(T, D)).
C9_RenderRoundTrip ==
  (Called("render") /\ DerivedCard(CardIdx(card, last.id))) =>
    /\ ~last.r.threw
    /\ Has(last.r.c, "front")
    /\ <<Md5Marker, MD5(Concat(last.r.c.front))>> = card[CardIdx(card, last.id)].front

\* C10: parseCond without options.fields returns no data and count 0, and
\* leaves every collection as it was.
C10_NoFieldsNoResult ==
  (Called("parseCond") /\ ~Has(last.options, "fields")) =>
    /\ last.r.data = <<>>
    /\ last.r.count = 0
    /\ ~last.r.threw
    /\ Store = last.pre

\* a stored card was asked for by its id, with a limit and without fields
C10_Witness ==
  /\ Called("parseCond")
  /\ ~Has(last.options, "fields") /\ Has(last.options, "limit")
  /\ \E n \in CardIds : last.q = <<IdTerm(n)>>
  /\ last.r.count = 0

(***************************************************************************)
(* Pages, projections, joins and the virtual filters of the query engine.  *)
(***************************************************************************)
Plain(f) == [deck |-> "d1", front |-> <<f>>]

Noted(f) == [deck |-> "d1", front |-> <<f>>, data |-> World]

\* an entry of a source, with its own note
Sourced ==
  [deck |-> "d1", front |-> <<"y">>, sH |-> "s1", source |-> "src1",
   data |-> <<[key |-> "name", value |-> "Moon"]>>]

ViewBatches == {<<Noted("x"), Noted("x")>>, <<Plain("x")>>, <<Sourced>>}

ViewQueries ==
  {<<>>, <<"is:distinct">>, <<"is:duplicate">>, <<IdTerm(1)>>, <<DeckTerm("d1")>>}

ViewOptions ==
  {[limit |-> 1],
   [fields |-> {"_id", "front"}],
   [fields |-> {"_id", "front"}, offset |-> 1, limit |-> 1],
   [fields |-> {"_id", "front"}, limit |-> 0],
   [fields |-> {"_id", "deck"}, limit |-> 1],
   [fields |-> {"_id", "source", "sH", "sCreated"}],
   [fields |-> {"_id", "data"}, offset |-> 1]}

NextView ==
  \/ \E es \in ViewBatches : InsertMany(es)
  \/ \E anki \in Ankis : anki.h = "a1" /\ FromAnki(anki)
  \/ \E q \in ViewQueries, options \in ViewOptions, lenient \in BOOLEAN :
       ParseCond(q, options, lenient)

SpecView == Init /\ [][NextView]_vars

\* the last call was a parseCond that ran its query and was not rejected
Queried == Called("parseCond") /\ Has(last.options, "fields") /\ ~last.r.threw

\* the same query unpaged, on the store the call found
Unpaged == parseCond(last.pre, last.q, Keep(last.options, {"fields"}), TRUE)

\* the rows the query has before its page is cut: filtered, virtual filters applied
RowsBeforePage == filtered(joined(last.pre, neededFields(last.q, last.options)), last.q)

OffsetOf(options) == IF Has(options, "offset") THEN options.offset ELSE 0

\* C11 (as stated): for every query, offset and limit, count is the number of
\* rows after the filters, and data is the rows offset .. offset+limit-1 of
\* them when a limit is given, all rows from offset on when none is.
C11_AsStated ==
  (Called("parseCond") /\ ~last.r.threw) =>
    /\ last.r.count = Len(RowsBeforePage)
    /\ Len(last.r.data)
         = IF Has(last.options, "limit")
           THEN Max(0, Min(last.r.count, OffsetOf(last.options) + last.options.limit)
                         - OffsetOf(last.options))
           ELSE Max(0, last.r.count - OffsetOf(last.options))

\* C11 (amended): when options.fields is given, count is the number of rows
\* of the unpaged query and data is its rows offset .. offset+limit-1 for a
\* limit above 0, all its rows from offset on when limit is omitted or 0.
C11_PageOfUnpaged ==
  Queried =>
    /\ last.r.count = Len(Unpaged.data)
    /\ last.r.count = Len(RowsBeforePage)
    /\ last.r.data
         = SubSeq(Unpaged.data, OffsetOf(last.options) + 1,
                  IF Has(last.options, "limit") /\ last.options.limit # 0
                  THEN Min(Len(Unpaged.data), OffsetOf(last.options) + last.options.limit)
                  ELSE Len(Unpaged.data))

\* the second of two rows was asked for with offset 1 and limit 1
C11_Witness ==
  /\ Queried
  /\ last.options.fields = {"_id", "front"}
  /\ Has(last.options, "offset") /\ Has(last.options, "limit")
  /\ last.r.count = 2
  /\ Len(last.r.data) = 1
  /\ last.r.data[1]._id = 2

\* C12: every row parseCond returns has only keys of the requested fields;
\* what the condition or a virtual filter made it join is not in the output.
C12_OnlyRequestedKeys ==
  Queried => \A n \in DOMAIN last.r.data : DOMAIN last.r.data[n] \subseteq FieldsOf(last.options)

\* is:distinct made the query join the notes, the caller asked for _id and front
C12_Witness ==
  /\ Queried
  /\ "is:distinct" \in Range(last.q)
  /\ last.options.fields = {"_id", "front"}
  /\ "note" \in last.r.joins
  /\ \E n \in DOMAIN last.r.data : Has(last.pre.card[CardIdx(last.pre.card, last.r.data[n]._id)], "noteId")

\* the fields of each joined collection (spec 4.4, step 3)
FieldsFrom ==
  [note |-> {"data", "key"}, deck |-> {"deck"}, source |-> {"source", "sH", "sCreated"},
   template |-> {"tFront", "tBack", "css", "js", "template"}]

\* the needed-field set of spec 4.4, step 2
Needed ==
  FieldsOf(last.options) \cup condFields(last.q)
    \cup (IF "is:distinct" \in Range(last.q) \/ "is:duplicate" \in Range(last.q)
          THEN {"key"} ELSE {})

\* C13: a query that runs joins each of Note, Deck, Source, Template if and
\* only if one of its fields is needed; a query for front alone joins none.
C13_JoinsByNeed ==
  (Called("parseCond") /\ Has(last.options, "fields")) =>
    /\ \A c \in DOMAIN FieldsFrom : c \in last.r.joins <=> FieldsFrom[c] \cap Needed # {}
    /\ (Needed \subseteq {"_id", "front"}) => last.r.joins = {}

\* a query for _id and front on a stored card joined nothing; its rows are
\* the stored documents
C13_Witness ==
  /\ Queried
  /\ last.q = <<>>
  /\ last.options.fields = {"_id", "front"}
  /\ last.r.joins = {}
  /\ last.r.data # <<>>

\* the Source the card's Note or Template belongs to (<<>>: none)
SourceOf(st, c) ==
  IF Has(c, "noteId") /\ c.noteId \in DOMAIN st.note /\ Has(st.note[c.noteId], "sourceId")
  THEN <<st.source[st.note[c.noteId].sourceId]>>
  ELSE IF Has(c, "templateId") /\ c.templateId \in DOMAIN st.template
          /\ Has(st.template[c.templateId], "sourceId")
       THEN <<st.source[st.template[c.templateId].sourceId]>>
       ELSE <<>>

\* the row shows the source s
ShowsSource(row, s) ==
  /\ Has(row, "source") /\ row.source = s.name
  /\ Has(row, "sH") /\ row.sH = s.h
  /\ Has(row, "sCreated") /\ row.sCreated = s.created

\* C14 (as stated): a query that asks for source, sH and sCreated gives, for
\* every card whose Note or Template belongs to a Source, that Source's name,
\* hash and created in the card's row.
C14_SourceShown ==
  (Queried /\ {"_id", "source", "sH", "sCreated"} \subseteq FieldsOf(last.options)) =>
    \A n \in DOMAIN last.r.data :
      SourceOf(last.pre, last.pre.card[CardIdx(last.pre.card, last.r.data[n]._id)]) # <<>> =>
        ShowsSource(last.r.data[n],
                    SourceOf(last.pre,
                             last.pre.card[CardIdx(last.pre.card, last.r.data[n]._id)])[1])

\* the ids of the cards that are the first of their note, or have none
FirstOfNote(cards) ==
  Pick([i \in DOMAIN cards |-> cards[i]._id],
       {i \in DOMAIN cards :
          Has(cards[i], "noteId") =>
            \A j \in 1..(i - 1) : Has(cards[j], "noteId") => cards[j].noteId # cards[i].noteId})

\* C15 (as stated): the query is:distinct keeps, of the cards of one note,
\* the first only, and every card without note, in their order.
C15_DistinctByNote ==
  (Queried /\ last.q = <<"is:distinct">> /\ "_id" \in FieldsOf(last.options)) =>
    /\ last.r.count = Len(FirstOfNote(last.pre.card))
    /\ (~Has(last.options, "limit") /\ ~Has(last.options, "offset")) =>
         [n \in DOMAIN last.r.data |-> last.r.data[n]._id] = FirstOfNote(last.pre.card)

(***************************************************************************)
(* The filter is:duplicate on any sequence of rows.                        *)
(***************************************************************************)
\* front texts, two of them integer-like
Fronts == {"x", "y", "1", "2"}

RECURSIVE SeqsUpTo(_, _)
\* the sequences over S of length n at most
SeqsUpTo(S, n) ==
  IF n = 0 THEN {<<>>}
  ELSE SeqsUpTo(S, n - 1) \cup {Append(t, x) : t \in SeqsUpTo(S, n - 1), x \in S}

\* the rows of the given fronts, each with its position as _id
RowsOf(fs) == [n \in DOMAIN fs |-> [_id |-> n, front |-> <<fs[n]>>]]

\* filters["is:duplicate"](items)
IsDuplicate(items) ==
  /\ last' = [op |-> "is:duplicate", items |-> items, r |-> isDuplicate(items)]
  /\ UNCHANGED <<deck, source, template, note, media, card, now, uid>>

NextFilter == \E fs \in SeqsUpTo(Fronts, MaxItems) : IsDuplicate(RowsOf(fs))

SpecFilter == Init /\ [][NextFilter]_vars

\* the positions at which a front occurs for the first time
FirstsOf(items) ==
  {n \in DOMAIN items : \A m \in 1..(n - 1) : FrontKey(items[m]) # FrontKey(items[n])}

\* C16 (as stated): is:duplicate gives exactly the rows whose front occurs
\* more than once, the groups in the order of the first occurrence of their
\* front and the rows of a group in their original order, for every front
\* text, integer-like ones included.
C16_GroupsInFirstOccurrenceOrder ==
  Called("is:duplicate") =>
    last.r = flattenGroups(last.items, insertionOrder(last.items, FirstsOf(last.items)))

(***************************************************************************)
(* Updates: cards are inserted, imported, patched and reviewed.            *)
(***************************************************************************)
\* a back that asks for a template of the front side
BackOfFront == <<TemplateMarker, FrontSide, "!">>

UpdateBatches ==
  {<<Templated("T1")>>,
   <<Templated("T1"), Templated("T1")>>,
   <<[deck |-> "d1", template |-> "T2", front |-> <<TemplateMarker>> \o Hello,
      back |-> BackOfFront, data |-> World, created |-> 9]>>,
   <<[deck |-> "d1", front |-> <<"Q">>, back |-> BackOfFront, data |-> World]>>}

\* the patches u of updateMany
Patches ==
  {[front |-> <<"Q2">>],
   [data |-> <<[key |-> "name", value |-> "Sun"], [key |-> "extra", value |-> "1"]>>],
   [back |-> BackOfFront],
   [tFront |-> <<"Hi ", Placeholder("name")>>],
   [deck |-> "d2"]}

NextUpdate ==
  \/ \E es \in UpdateBatches : InsertMany(es)
  \/ \E anki \in Ankis : anki.h = "a1" /\ FromAnki(anki)
  \/ \E ids \in SUBSET (1..MaxCards), u \in Patches : ids # {} /\ UpdateMany(ids, u)

SpecUpdate == Init /\ [][NextUpdate]_vars

(***************************************************************************)
(* Time stamps: a card is inserted, patched and reviewed as time passes.   *)
(***************************************************************************)
\* entries with and without a created of their own
StampEntries ==
  {[deck |-> "d1", front |-> <<"Q">>],
   [deck |-> "d1", front |-> <<"Q">>, created |-> 9],
   [deck |-> "d1", front |-> <<"Q">>, back |-> <<"A">>, created |-> 9, modified |-> 9]}

StampPatches == {[front |-> <<"Q2">>], [back |-> <<"A2">>, mnemonic |-> <<"m">>]}

NextStamp ==
  \/ \E e \in StampEntries : Len(card) < MaxSrsCards /\ InsertMany(<<e>>)
  \/ \E ids \in SUBSET (1..MaxSrsCards), u \in StampPatches : ids # {} /\ UpdateMany(ids, u)
  \/ \E id \in 1..MaxSrsCards : MarkRight(id)
  \/ \E id \in 1..MaxSrsCards : MarkWrong(id)
  \/ Tick

SpecStamp == Init /\ [][NextStamp]_vars

\* C17 (as stated): every card insertMany creates has created = the time of
\* the insert, whatever created the payload carried, and every updateMany on
\* an existing card, the one of markRight and markWrong included, leaves that
\* card with modified = the time of the call.
C17_Stamped ==
  [][/\ (last'.op = "insertMany" /\ last' # last) =>
          \A n \in DOMAIN last'.ids :
            /\ CardIdx(card', last'.ids[n]) # 0
            /\ card'[CardIdx(card', last'.ids[n])].created = now
     /\ (last'.op = "updateMany" /\ last' # last) =>
          \A id \in last'.ids \cap CardIds :
            /\ Has(card'[CardIdx(card', id)], "modified")
            /\ card'[CardIdx(card', id)].modified = now
     /\ (last'.op \in {"markRight", "markWrong"} /\ last' # last /\ last'.id \in CardIds) =>
          /\ Has(card'[CardIdx(card', last'.id)], "modified")
          /\ card'[CardIdx(card', last'.id)].modified = now]_vars

\* the cards of the store st that the ids name
CardsHit(st, ids) == {i \in DOMAIN st.card : st.card[i]._id \in ids}

\* C18: every Note row has an order mapping and a data mapping of the same
\* keys, after any insertMany, updateMany (with a data patch) and fromAnki.
C18_OrderMatchesData ==
  \A i \in DOMAIN note :
    /\ Has(note[i], "order")
    /\ Has(note[i], "data")
    /\ DOMAIN note[i].order = DOMAIN note[i].data

\* an updateMany with a data patch on a card that has a note
C18_Witness ==
  /\ Called("updateMany")
  /\ Has(last.u, "data")
  /\ \E i \in CardsHit(last.pre, last.ids) :
       /\ Has(last.pre.card[i], "noteId")
       /\ last.pre.card[i].noteId \in DOMAIN note

\* the field map of a payload's data, none without data
PayloadData(e) == IF Has(e, "data") THEN DataOf(e.data) ELSE <<>>

\* the field map of the note of card c in st, none without note
NoteData(st, c) ==
  IF Has(c, "noteId") /\ c.noteId \in DOMAIN st.note THEN st.note[c.noteId].data ELSE <<>>

\* the front text of card c in st: re-derived from its template and note when
\* the stored front is a hash marker, the stored front otherwise
CurrentFront(st, c) ==
  IF Has(c, "front") /\ StartsWith(c.front, Md5Marker)
     /\ Has(c, "templateId") /\ c.templateId \in DOMAIN st.template
     /\ Has(st.template[c.templateId], "front")
  THEN ankiMustache(st.template[c.templateId].front, NoteData(st, c), "")
  ELSE IF Has(c, "front") THEN Concat(c.front) ELSE ""

\* the back a payload with a template-requested back is to be stored with
RequestedBack(u, data, front) ==
  <<Md5Marker,
    MD5(ankiMustache(Tail(u.back), data,
                     IF Txt(u, "front") /\ StartsWith(u.front, TemplateMarker)
                     THEN ankiMustache(Tail(u.front), data, "")
                     ELSE front))>>

\* C19 (as stated): a create or update payload whose back begins with the
\* template-request marker leaves the card with back = the hash marker and
\* the hash of the text after the marker in back rendered with the data and
\* the front text (the one derived in the same call, or the card's current
\* front re-derived).
C19_BackFromBack ==
  /\ Called("insertMany") =>
       \A n \in DOMAIN last.entries :
         (Txt(last.entries[n], "back") /\ StartsWith(last.entries[n].back, TemplateMarker)) =>
           \E i \in DOMAIN card :
             /\ card[i]._id = last.ids[n]
             /\ Has(card[i], "back")
             /\ card[i].back = RequestedBack(last.entries[n], PayloadData(last.entries[n]),
                                              IF Has(last.entries[n], "front")
                                              THEN Concat(last.entries[n].front) ELSE "")
  /\ (Called("updateMany") /\ Txt(last.u, "back") /\ StartsWith(last.u.back, TemplateMarker)) =>
       \A i \in CardsHit(last.pre, last.ids) :
         /\ Has(card[i], "back")
         /\ card[i].back = RequestedBack(last.u, NoteData(last.pre, last.pre.card[i]),
                                          CurrentFront(last.pre, last.pre.card[i]))

\* C20 (as stated): every Note row's key is the hash of its data and every
\* Template row's key is the hash of its front, back, css and js, after any
\* operations.
C20_KeysAreHashes ==
  /\ \A i \in DOMAIN note :
       Has(note[i], "key") /\ note[i].key = getNoteId(note[i].data)
  /\ \A i \in DOMAIN template :
       Has(template[i], "key") /\ template[i].key = getTemplateId(template[i])

\* C21 (as stated): updateMany, and markRight and markWrong through it,
\* change on a targeted card only the fields named in u and modified; every
\* other stored field keeps its value, and the other cards are unchanged.
C21_OnlyNamedFields ==
  /\ Called("updateMany") =>
       \A i \in DOMAIN last.pre.card :
         /\ i \in DOMAIN card
         /\ IF last.pre.card[i]._id \in last.ids
            THEN Without(card[i], DOMAIN last.u \cup {"modified"})
                   = Without(last.pre.card[i], DOMAIN last.u \cup {"modified"})
            ELSE card[i] = last.pre.card[i]
  /\ ((Called("markRight") \/ Called("markWrong")) /\ last.pre # <<>>) =>
       Without(card[CardIdx(card, last.id)], {"srsLevel", "stat", "nextReview", "modified"})
         = Without(last.pre[1], {"srsLevel", "stat", "nextReview", "modified"})

\* C22 (as stated): after updateMany([c], {tFront: T2}) on a card linked to
\* Template t, the row t has front T2 and render of every other card linked
\* to t gives its front from T2; likewise tBack, css and js, each written to
\* its own Template field.
C22_TemplateEditedInPlace ==
  Called("updateMany") =>
    \A i \in CardsHit(last.pre, last.ids) :
      (Has(last.pre.card[i], "templateId") /\ last.pre.card[i].templateId \in DOMAIN template) =>
        LET t == last.pre.card[i].templateId
        IN /\ Has(last.u, "tFront") =>
                /\ Has(template[t], "front") /\ template[t].front = last.u.tFront
                /\ \A j \in DOMAIN card :
                     (j # i /\ Has(card[j], "templateId") /\ card[j].templateId = t) =>
                       /\ ~render(Store, card[j]._id, TRUE).threw
                       /\ render(Store, card[j]._id, TRUE).c.front
                            = <<ankiMustache(last.u.tFront, NoteData(Store, card[j]), "")>>
           /\ Has(last.u, "tBack") => (Has(template[t], "back") /\ template[t].back = last.u.tBack)
           /\ Has(last.u, "css") => (Has(template[t], "css") /\ template[t].css = last.u.css)
           /\ Has(last.u, "js") => (Has(template[t], "js") /\ template[t].js = last.u.js)

(***************************************************************************)
(* deleteMany, addTags, removeTags, and queries over what they leave.      *)
(***************************************************************************)
\* a removal that takes every card
deleteMany_All(cards, ids) == <<>>

\* card.removeWhere((c0) => ids.includes(c0._id))
deleteMany(cards, ids) == SelectSeq(cards, LAMBDA c : c._id \notin ids)

DeleteMany(ids) ==
  /\ card' = deleteMany(card, ids)
  /\ last' = [op |-> "deleteMany", ids |-> ids, pre |-> Store]
  /\ UNCHANGED <<deck, source, template, note, media, now, uid>>

\* an addTags that appends every tag, stored before or not
AddTags_Append(ids, tags) ==
  /\ card' = [i \in DOMAIN card |->
                IF card[i]._id \in ids
                THEN Assign(card[i], [modified |-> now,
                                      tag |-> (IF Has(card[i], "tag") THEN card[i].tag ELSE <<>>)
                                                \o tags])
                ELSE card[i]]
  /\ last' = [op |-> "addTags", ids |-> ids, tags |-> tags, pre |-> Store]
  /\ UNCHANGED <<deck, source, template, note, media, now, uid>>

\* addTags(ids, tags): on every card named, modified is set and each tag the
\* list does not include yet is pushed, in the order of tags
AddTags(ids, tags) ==
  /\ card' = [i \in DOMAIN card |->
                IF card[i]._id \in ids
                THEN LET tag == IF Has(card[i], "tag") THEN card[i].tag ELSE <<>>
                         new == {n \in DOMAIN tags :
                                   /\ tags[n] \notin Range(tag)
                                   /\ \A m \in 1..(n - 1) : tags[m] # tags[n]}
                     IN Assign(card[i], [modified |-> now, tag |-> tag \o Pick(tags, new)])
                ELSE card[i]]
  /\ last' = [op |-> "addTags", ids |-> ids, tags |-> tags, pre |-> Store]
  /\ UNCHANGED <<deck, source, template, note, media, now, uid>>

\* removeTags(ids, tags): on every card named, modified is set and the tags
\* not in tags are kept; tag is deleted when none is left
RemoveTags(ids, tags) ==
  /\ card' = [i \in DOMAIN card |->
                IF card[i]._id \in ids
                THEN LET tag == IF Has(card[i], "tag") THEN card[i].tag ELSE <<>>
                         newTags == SelectSeq(tag, LAMBDA t : t \notin Range(tags))
                     IN IF newTags # <<>>
                        THEN Assign(card[i], [modified |-> now, tag |-> newTags])
                        ELSE Assign(Without(card[i], {"tag"}), [modified |-> now])
                ELSE card[i]]
  /\ last' = [op |-> "removeTags", ids |-> ids, tags |-> tags, pre |-> Store]
  /\ UNCHANGED <<deck, source, template, note, media, now, uid>>

NextCards ==
  \/ \E es \in {<<Templated("T1")>>, <<Plain("x")>>} : uid < MaxCards /\ InsertMany(es)
  \/ \E anki \in Ankis : anki.h = "a1" /\ uid < MaxCards /\ FromAnki(anki)
  \/ \E ids \in SUBSET (1..MaxCards) : ids # {} /\ DeleteMany(ids)
  \/ \E fields \in {{"_id", "deck"}, {"_id", "data"}, {"_id", "deck", "data", "tFront", "css"}},
        lenient \in BOOLEAN :
       ParseCond(<<>>, [fields |-> fields], lenient)

SpecCards == Init /\ [][NextCards]_vars

\* cards with and without tags, tagged and untagged again
NextTags ==
  \/ \E es \in {<<Plain("x")>>, <<[deck |-> "d1", front |-> <<"y">>, tag |-> <<"t1">>]>>} :
       InsertMany(es)
  \/ \E ids \in SUBSET (1..MaxCards), tags \in {<<"t2">>, <<"t1", "t2", "t2">>} :
       ids # {} /\ AddTags(ids, tags)
  \/ \E ids \in SUBSET (1..MaxCards), tags \in {<<"t2">>, <<"t1", "t2", "t2">>} :
       ids # {} /\ RemoveTags(ids, tags)

SpecTags == Init /\ [][NextTags]_vars

\* card c of st has no row of coll under its link k
Dangling(c, k, coll) == ~Has(c, k) \/ c[k] \notin DOMAIN coll

\* the row parseCond gave for card c of st shows nothing of a missing deck,
\* template or note
EmptyJoins(row, c, st) ==
  /\ Dangling(c, "deckId", st.deck) => ~Has(row, "deck")
  /\ Dangling(c, "templateId", st.template) => DOMAIN row \cap {"tFront", "tBack", "css", "js"} = {}
  /\ Dangling(c, "noteId", st.note) => (Has(row, "data") => row.data = <<>>)

TagsOf(c) == IF Has(c, "tag") THEN c.tag ELSE <<>>

\* no tag occurs twice in a card's list
DuplicateFree(cards) ==
  \A i \in DOMAIN cards :
    \A m, n \in DOMAIN TagsOf(cards[i]) : TagsOf(cards[i])[m] = TagsOf(cards[i])[n] => m = n

\* C24: addTags and removeTags keep duplicate-free tag lists duplicate-free;
\* after addTags(ids, T) every card named has every tag of T, and the same
\* call again changes no tag list; after removeTags(ids, T) no card named has
\* a tag of T, and one left without tags has no tag field; the cards not named
\* keep their tags.
C24_TagLists ==
  [][/\ (last'.op \in {"addTags", "removeTags"} /\ last' # last) =>
          /\ DOMAIN card' = DOMAIN card
          /\ DuplicateFree(card) => DuplicateFree(card')
          /\ \A i \in DOMAIN card :
               card[i]._id \notin last'.ids => TagsOf(card'[i]) = TagsOf(card[i])
     /\ (last'.op = "addTags" /\ last' # last) =>
          \A i \in DOMAIN card :
            card[i]._id \in last'.ids =>
              /\ Range(last'.tags) \subseteq Range(TagsOf(card'[i]))
              /\ (last.op = "addTags" /\ last.ids = last'.ids /\ last.tags = last'.tags) =>
                   TagsOf(card'[i]) = TagsOf(card[i])
     /\ (last'.op = "removeTags" /\ last' # last) =>
          \A i \in DOMAIN card :
            card[i]._id \in last'.ids =>
              /\ Range(TagsOf(card'[i])) \cap Range(last'.tags) = {}
              /\ Has(card'[i], "tag") => card'[i].tag # <<>>]_vars

\* an addTags that found one of its tags stored and pushed the other once
C24_Witness ==
  /\ Called("addTags")
  /\ last.tags = <<"t1", "t2", "t2">>
  /\ \E i \in CardsHit(last.pre, last.ids) :
       /\ TagsOf(last.pre.card[i]) = <<"t1">>
       /\ TagsOf(card[i]) = <<"t1", "t2">>
  /\ \E i \in DOMAIN card : card[i]._id \notin last.ids

====
